---- MODULE Spec2Model ----
(***************************************************************************)
(* WaveSort (module wavesort_rust of src/src/main.rs) as a state machine.  *)
(* The array is a sequence; the code's zero-based index k is element k+1.  *)
(* The call stack is explicit: one frame per active call of sort, upwave,  *)
(* downwave or partition, the head of `stack` being the running call.      *)
(* insertion_sort and block_swap are pure operators applied in one step;   *)
(* partition runs one loop iteration per step.                             *)
(***************************************************************************)
EXTENDS Integers, Sequences, FiniteSets

VARIABLES
    arr,       \* the slice being sorted (arr: &mut [i32])
    input,     \* the slice as it was when sort was called
    stack,     \* the call stack, running call first
    fault,     \* "none", or the panic / out-of-bounds access that stopped the sort
    ins_len,   \* length of the slice given to the latest insertion_sort call, -1 before any
    guards,    \* names of the underflow guards of downwave tested so far
    skipped    \* names of the underflow guards that evaluated to false

vars == <<arr, input, stack, fault, ins_len, guards, skipped>>

(***************************************************************************)
(* Program constant and model bounds                                       *)
(***************************************************************************)
INSERTION_THRESHOLD == 32

MaxLen == 60
MaxWave == 4
MaxGap == 4
MaxMod == 3

(***************************************************************************)
(* Zero-based access to the array                                          *)
(***************************************************************************)
At(a, k) == a[k + 1]

Put(a, k, x) == [a EXCEPT ![k + 1] = x]

InBounds(a, k) == 0 <= k /\ k < Len(a)

\* &arr[lo..=hi] as a sequence of its own, and the array with that slice replaced
Slice(a, lo, hi) == SubSeq(a, lo + 1, hi + 1)

WithSlice(a, lo, hi, s) == SubSeq(a, 1, lo) \o s \o SubSeq(a, hi + 2, Len(a))

(***************************************************************************)
(* insertion_sort                                                          *)
(***************************************************************************)
\* The one-element sets below bind an intermediate result to its value, so that a
\* loop iteration is evaluated once before the next one starts.

\* the loop condition written j > 1: the first element is never compared
ShiftStop_SkipsFirst(s, i, key) ==
    CHOOSE j \in 1 .. i :
        /\ \A k \in j .. i - 1 : At(s, k) > key
        /\ j = 1 \/ ~(At(s, j - 1) > key)

\* where the while loop stops: the lowest j with s[j], ..., s[i - 1] all > key
ShiftStop(s, i, key) ==
    CHOOSE j \in 0 .. i :
        /\ \A k \in j .. i - 1 : At(s, k) > key
        /\ j = 0 \/ ~(At(s, j - 1) > key)

\* the final store of key left out
InsertShift_KeyLost(s, i, key) ==
    CHOOSE t \in {[k \in 1 .. Len(s) |->
                      IF k - 1 <= j \/ k - 1 > i THEN s[k]
                      ELSE s[k - 1]] : j \in {ShiftStop(s, i, key)}} : TRUE

\* lines 45-51, one pass of the for loop: s[j..i-1] move one place right, key goes to s[j]
InsertShift(s, i, key) ==
    CHOOSE t \in {[k \in 1 .. Len(s) |->
                      IF k - 1 < j \/ k - 1 > i THEN s[k]
                      ELSE IF k - 1 = j THEN key
                      ELSE s[k - 1]] : j \in {ShiftStop(s, i, key)}} : TRUE

\* lines 43-53: for i in 1..len
RECURSIVE InsertLoop(_, _)
InsertLoop(s, i) ==
    IF i >= Len(s) THEN s
    ELSE CHOOSE u \in {InsertLoop(t, i + 1) : t \in {InsertShift(s, i, At(s, i))}} : TRUE

insertion_sort(s) == IF Len(s) < 2 THEN s ELSE InsertLoop(s, 1)

(***************************************************************************)
(* block_swap: arr[m..m + range_len].rotate_left(left_len)                 *)
(***************************************************************************)
\* the rotation done to the right
rotate_left_ToRight(s, mid) ==
    SubSeq(s, Len(s) - mid + 1, Len(s)) \o SubSeq(s, 1, Len(s) - mid)

rotate_left(s, mid) == SubSeq(s, mid + 1, Len(s)) \o SubSeq(s, 1, mid)

block_swap(a, m, r, p) ==
    IF r - m = 0 THEN a
    ELSE WithSlice(a, m, p, rotate_left(Slice(a, m, p), r - m))

\* what makes block_swap panic: p - m underflows, the slice leaves the array, or
\* rotate_left's mid (r.wrapping_sub(m), huge when r < m) exceeds the slice length
block_swap_panics(a, m, r, p) ==
    /\ r - m # 0
    /\ \/ p < m
       \/ p >= Len(a)
       \/ r < m
       \/ r - m > p - m + 1

(***************************************************************************)
(* Frames                                                                  *)
(***************************************************************************)
SortFrame == [fn |-> "sort", pc |-> "entry"]

UpwaveFrame(start, end) ==
    [fn |-> "upwave", pc |-> "entry", start |-> start, end |-> end,
     sorted_start |-> end, left_bound |-> end, total_len |-> 0]

DownwaveFrame(start, sorted_start, end) ==
    [fn |-> "downwave", pc |-> "entry", start |-> start,
     sorted_start |-> sorted_start, end |-> end,
     p |-> 0, m |-> 0, v |-> 0, pre |-> <<>>]

\* the right cursor started at the pivot instead of r
PartitionFrame_UpToPivot(l, r, p_idx, a) ==
    [fn |-> "partition", pc |-> "entry", l |-> l, r |-> p_idx, p_idx |-> p_idx,
     pivot_val |-> 0, i |-> l, j |-> p_idx, reads |-> {}, writes |-> {}, snap |-> a]

PartitionFrame(l, r, p_idx, a) ==
    [fn |-> "partition", pc |-> "entry", l |-> l, r |-> r, p_idx |-> p_idx,
     pivot_val |-> 0, i |-> l, j |-> r, reads |-> {}, writes |-> {}, snap |-> a]

Top == Head(stack)

Rest == Tail(stack)

Running(fn, pc) == fault = "none" /\ stack # <<>> /\ Top.fn = fn /\ Top.pc = pc

NoGuard == UNCHANGED <<guards, skipped>>

\* an underflow guard of downwave is tested and evaluates to `ok`
Tested(g, ok) ==
    /\ guards' = guards \cup {g}
    /\ skipped' = IF ok THEN skipped ELSE skipped \cup {g}

\* The sort stops with a panic. An unchecked access outside the array (get_unchecked,
\* ptr.add) is undefined behaviour: whatever it would do, the run is recorded as
\* faulted at that point and goes no further.
Fail(why) ==
    /\ fault' = why
    /\ UNCHANGED <<arr, input, stack, ins_len, guards, skipped>>

\* the running call returns
Return ==
    /\ stack' = Rest
    /\ UNCHANGED <<arr, input, fault, ins_len>>

\* the running call sorts arr[lo..=hi] by insertion and returns
InsertionReturn(lo, hi) ==
    IF lo < 0 \/ lo > hi + 1 \/ hi >= Len(arr)
    THEN Fail("slice index out of range")
    ELSE /\ arr' = WithSlice(arr, lo, hi, insertion_sort(Slice(arr, lo, hi)))
         /\ ins_len' = hi - lo + 1
         /\ stack' = Rest
         /\ UNCHANGED <<input, fault, guards, skipped>>

\* the running call, its frame now `caller`, calls `callee`
Call(callee, caller) ==
    /\ stack' = <<callee, caller>> \o Rest
    /\ UNCHANGED <<arr, input, fault, ins_len>>

At_pc(f, pc) == [f EXCEPT !.pc = pc]

(***************************************************************************)
(* sort                                                                    *)
(***************************************************************************)
SortEntry ==
    /\ Running("sort", "entry")
    /\ LET n == Len(arr) IN
       IF n < 2 THEN Return /\ NoGuard
       ELSE IF n <= INSERTION_THRESHOLD THEN InsertionReturn(0, n - 1)
       ELSE Call(UpwaveFrame(0, n - 1), At_pc(Top, "ret")) /\ NoGuard

SortReturn ==
    /\ Running("sort", "ret")
    /\ Return /\ NoGuard

(***************************************************************************)
(* partition                                                               *)
(***************************************************************************)
PartitionStay(f) ==
    /\ stack' = <<f>> \o Rest
    /\ UNCHANGED <<arr, input, fault, ins_len, guards, skipped>>

\* the comparison of the first inner loop turned round
LeftStops_Flipped(val, pivot_val) == val <= pivot_val

\* if val >= pivot_val { break; }   and   if val <= pivot_val { break; }
LeftStops(val, pivot_val) == val >= pivot_val

RightStops(val, pivot_val) == val <= pivot_val

\* let pivot_val = *ptr.add(p_idx); let mut i = l; let mut j = r;
PartitionEntry ==
    /\ Running("partition", "entry")
    /\ LET f == Top IN
       IF ~InBounds(arr, f.p_idx) THEN Fail("partition: pivot read outside the array")
       ELSE PartitionStay([f EXCEPT !.pc = "left", !.pivot_val = At(arr, f.p_idx),
                                    !.i = f.l, !.j = f.r,
                                    !.reads = {f.p_idx}])

\* the first inner loop without its test i == j
PartitionLeft_NoMeet ==
    /\ Running("partition", "left")
    /\ LET f == Top IN
       IF ~InBounds(arr, f.i) THEN Fail("partition: read at i outside the array")
       ELSE LET g == [f EXCEPT !.reads = f.reads \cup {f.i}] IN
            IF LeftStops(At(arr, f.i), f.pivot_val)
            THEN PartitionStay([g EXCEPT !.pc = "right"])
            ELSE PartitionStay([g EXCEPT !.i = f.i + 1])

\* one iteration of the first inner loop
PartitionLeft ==
    /\ Running("partition", "left")
    /\ LET f == Top IN
       IF ~InBounds(arr, f.i) THEN Fail("partition: read at i outside the array")
       ELSE LET g == [f EXCEPT !.reads = f.reads \cup {f.i}] IN
            IF LeftStops(At(arr, f.i), f.pivot_val)
            THEN PartitionStay([g EXCEPT !.pc = "right"])
            ELSE IF f.i + 1 = f.j
                 THEN PartitionStay([g EXCEPT !.i = f.i + 1, !.pc = "ret"])
                 ELSE PartitionStay([g EXCEPT !.i = f.i + 1])

\* one iteration of the second inner loop
PartitionRight ==
    /\ Running("partition", "right")
    /\ LET f == Top IN
       IF f.j = f.i THEN PartitionStay([f EXCEPT !.pc = "ret"])
       ELSE IF f.j = 0 THEN Fail("partition: j - 1 underflows")
       ELSE IF ~InBounds(arr, f.j - 1) THEN Fail("partition: read at j outside the array")
       ELSE LET g == [f EXCEPT !.j = f.j - 1, !.reads = f.reads \cup {f.j - 1}] IN
            IF RightStops(At(arr, f.j - 1), f.pivot_val)
            THEN PartitionStay([g EXCEPT !.pc = "swap"])
            ELSE PartitionStay(g)

\* std::ptr::swap(ptr.add(i), ptr.add(j))
PartitionSwap ==
    /\ Running("partition", "swap")
    /\ LET f == Top IN
       /\ arr' = Put(Put(arr, f.i, At(arr, f.j)), f.j, At(arr, f.i))
       /\ stack' = <<[f EXCEPT !.pc = "left",
                               !.reads = f.reads \cup {f.i, f.j},
                               !.writes = f.writes \cup {f.i, f.j}]>> \o Rest
       /\ UNCHANGED <<input, fault, ins_len, guards, skipped>>

\* return i: partition hands the split index to the downwave call below it
PartitionReturn ==
    /\ Running("partition", "ret")
    /\ stack' = <<[Head(Rest) EXCEPT !.pc = "partitioned", !.m = Top.i,
                                     !.v = Top.pivot_val]>> \o Tail(Rest)
    /\ UNCHANGED <<arr, input, fault, ins_len, guards, skipped>>

(***************************************************************************)
(* downwave                                                                *)
(***************************************************************************)
\* the offset into the suffix taken for the index
Pivot_NoBase(sorted_start, end) == (end - sorted_start) \div 2

\* let p = sorted_start + (end - sorted_start) / 2;
Pivot(sorted_start, end) == sorted_start + (end - sorted_start) \div 2

\* let split_point = m + right_part_len;
SplitPoint(m, p, sorted_start) == m + (p - sorted_start)

\* lines 99-107: the two base cases, then the call of partition
DownwaveEntry ==
    /\ Running("downwave", "entry")
    /\ LET f == Top IN
       IF f.sorted_start = f.start THEN Return /\ NoGuard
       ELSE IF f.end < f.start THEN Fail("downwave: end - start underflows")
       ELSE IF f.end - f.start <= INSERTION_THRESHOLD
            THEN InsertionReturn(f.start, f.end)
       ELSE IF f.end < f.sorted_start
            THEN Fail("downwave: end - sorted_start underflows")
       ELSE LET p == Pivot(f.sorted_start, f.end) IN
            /\ Call(PartitionFrame(f.start, f.sorted_start, p, arr),
                    [f EXCEPT !.pc = "in_partition", !.p = p])
            /\ NoGuard

\* lines 108-120: the collapsed split, or block_swap
DownwavePartitioned ==
    /\ Running("downwave", "partitioned")
    /\ LET f == Top IN
       IF f.m = f.sorted_start
       THEN IF f.p = f.sorted_start
            THEN /\ Tested("sorted_start > 0", f.sorted_start > 0)
                 /\ IF f.sorted_start > 0
                    THEN Call(UpwaveFrame(f.start, f.sorted_start - 1), At_pc(f, "ret"))
                    ELSE Return
            ELSE /\ Tested("p > 0", f.p > 0)
                 /\ IF f.p > 0
                    THEN Call(DownwaveFrame(f.start, f.sorted_start, f.p - 1),
                              At_pc(f, "ret"))
                    ELSE Return
       ELSE IF block_swap_panics(arr, f.m, f.sorted_start, f.p)
            THEN Fail("block_swap: slice or rotation out of range")
            ELSE /\ arr' = block_swap(arr, f.m, f.sorted_start, f.p)
                 /\ stack' = <<[f EXCEPT !.pc = "swapped", !.pre = arr]>> \o Rest
                 /\ UNCHANGED <<input, fault, ins_len, guards, skipped>>

\* the last call made on the whole window again
SecondCall_WholeWindow(f) ==
    IF f.p = f.sorted_start
    THEN UpwaveFrame(f.start, f.end)
    ELSE DownwaveFrame(f.start, f.p + 1, f.end)

\* p passed where p + 1 is the start of the sorted suffix
SecondCall_SuffixAtP(f) ==
    IF f.p = f.sorted_start
    THEN UpwaveFrame(f.m + 1, f.end)
    ELSE DownwaveFrame(SplitPoint(f.m, f.p, f.sorted_start) + 1, f.p, f.end)

\* the call that ends lines 130-142: upwave(m + 1, end) or downwave(split_point + 1, p + 1, end)
SecondCall(f) ==
    IF f.p = f.sorted_start
    THEN UpwaveFrame(f.m + 1, f.end)
    ELSE DownwaveFrame(SplitPoint(f.m, f.p, f.sorted_start) + 1, f.p + 1, f.end)

\* lines 121-142, up to the first recursive call
DownwaveSwapped ==
    /\ Running("downwave", "swapped")
    /\ LET f == Top IN
       IF f.m = f.start
       THEN /\ NoGuard
            /\ IF f.p = f.sorted_start
               THEN Call(UpwaveFrame(f.m + 1, f.end), At_pc(f, "ret"))
               ELSE IF f.m + (f.p + 1) < f.sorted_start
                    THEN Fail("downwave: m + p_next - sorted_start underflows")
                    ELSE Call(DownwaveFrame(f.m + (f.p + 1) - f.sorted_start,
                                            f.p + 1, f.end), At_pc(f, "ret"))
       ELSE IF f.p = f.sorted_start
       THEN /\ Tested("m > 0", f.m > 0)
            /\ IF f.m > 0
               THEN Call(UpwaveFrame(f.start, f.m - 1), At_pc(f, "second"))
               ELSE Call(SecondCall(f), At_pc(f, "ret"))
       ELSE IF f.p < f.sorted_start
       THEN Fail("downwave: p - sorted_start underflows")
       ELSE LET split_point == SplitPoint(f.m, f.p, f.sorted_start) IN
            /\ Tested("split_point > 0", split_point > 0)
            /\ IF split_point > 0
               THEN Call(DownwaveFrame(f.start, f.m, split_point - 1),
                         At_pc(f, "second"))
               ELSE Call(SecondCall(f), At_pc(f, "ret"))

\* the second recursive call of lines 134 and 142
DownwaveSecond ==
    /\ Running("downwave", "second")
    /\ Call(SecondCall(Top), At_pc(Top, "ret"))
    /\ NoGuard

DownwaveReturn ==
    /\ Running("downwave", "ret")
    /\ Return /\ NoGuard

(***************************************************************************)
(* upwave                                                                  *)
(***************************************************************************)
\* if total_len < (sorted_len << 2) { break; }
Covered(total_len, sorted_len) == total_len < 4 * sorted_len

\* lines 167-175: the next window's left edge
NextLeftBound(start, end, sorted_len) ==
    LET next_expansion == 2 * sorted_len + 1
        left_bound == IF end < next_expansion \/ (end - next_expansion) < start
                      THEN start
                      ELSE end - next_expansion
    IN  IF left_bound < start THEN start ELSE left_bound

\* lines 146-161: the base cases, then the first window
UpwaveEntry ==
    /\ Running("upwave", "entry")
    /\ LET f == Top IN
       IF f.start = f.end THEN Return /\ NoGuard
       ELSE IF f.end < f.start THEN Fail("upwave: end - start underflows")
       ELSE IF f.end - f.start <= INSERTION_THRESHOLD
            THEN InsertionReturn(f.start, f.end)
       ELSE IF f.end = 0 THEN Return /\ NoGuard
       ELSE /\ Call(DownwaveFrame(f.end - 1, f.end, f.end),
                    [f EXCEPT !.pc = "loop", !.sorted_start = f.end,
                              !.left_bound = f.end - 1,
                              !.total_len = f.end - f.start + 1])
            /\ NoGuard

\* lines 162-180: downwave has returned inside the loop
UpwaveLoop ==
    /\ Running("upwave", "loop")
    /\ LET f == Top
           sorted_start == f.left_bound
           sorted_len == f.end - sorted_start + 1
           left_bound == NextLeftBound(f.start, f.end, sorted_len)
       IN
       /\ NoGuard
       /\ IF f.end < sorted_start THEN Fail("upwave: end - sorted_start underflows")
          ELSE IF Covered(f.total_len, sorted_len) \/ sorted_start = f.start
          THEN Call(DownwaveFrame(f.start, sorted_start, f.end),
                    [f EXCEPT !.pc = "ret", !.sorted_start = sorted_start,
                              !.left_bound =
                                  IF Covered(f.total_len, sorted_len)
                                  THEN f.left_bound ELSE left_bound])
          ELSE Call(DownwaveFrame(left_bound, sorted_start, f.end),
                    [f EXCEPT !.sorted_start = sorted_start,
                              !.left_bound = left_bound])

UpwaveReturn ==
    /\ Running("upwave", "ret")
    /\ Return /\ NoGuard

(***************************************************************************)
(* Inputs                                                                  *)
(***************************************************************************)
Lens == 0 .. MaxLen

Moduli == {4 * k - 1 : k \in 1 .. MaxMod}

TailLens == {2 ^ (w + 1) - 2 : w \in 1 .. MaxWave}

Gaps == {2 * k : k \in 1 .. MaxGap}

AllEqual(n) == [k \in 1 .. n |-> 0]

Ascending(n) == [k \in 1 .. n |-> k - 1]

Descending(n) == [k \in 1 .. n |-> 1 - k]

\* few distinct values, many duplicates
Scrambled(n, md) == [k \in 1 .. n |-> (3 * k * k + 5 * k) % md]

\* a prefix alternating 0 and g, then an ascending tail of c elements 1, 2, ...
Interleaved(n, c, g) ==
    [k \in 1 .. n |-> IF k <= n - c THEN (k % 2) * g ELSE k - (n - c)]

Inputs ==
    UNION {   {AllEqual(n), Ascending(n), Descending(n)}
         \cup {Scrambled(n, md) : md \in Moduli}
         \cup {Interleaved(n, c, g) : c \in TailLens, g \in Gaps}
         : n \in Lens}

(***************************************************************************)
(* Specification                                                           *)
(***************************************************************************)
Init ==
    /\ input \in Inputs
    /\ arr = input
    /\ stack = <<SortFrame>>
    /\ fault = "none"
    /\ ins_len = -1
    /\ guards = {}
    /\ skipped = {}

Next ==
    \/ SortEntry
    \/ SortReturn
    \/ UpwaveEntry
    \/ UpwaveLoop
    \/ UpwaveReturn
    \/ DownwaveEntry
    \/ DownwavePartitioned
    \/ DownwaveSwapped
    \/ DownwaveSecond
    \/ DownwaveReturn
    \/ PartitionEntry
    \/ PartitionLeft
    \/ PartitionRight
    \/ PartitionSwap
    \/ PartitionReturn

Spec == Init /\ [][Next]_vars

\* the sort is one sequential call: a step that can be taken is taken
FairSpec == Spec /\ WF_vars(Next)

Done == stack = <<>>

(***************************************************************************)
(* Properties                                                              *)
(***************************************************************************)
Sorted(a, lo, hi) == \A k \in lo .. hi - 1 : At(a, k) <= At(a, k + 1)

Values(a) == {a[k] : k \in DOMAIN a}

Count(a, x) == Cardinality({k \in DOMAIN a : a[k] = x})

SameMultiset(a, b) ==
    /\ Len(a) = Len(b)
    /\ \A x \in Values(a) \cup Values(b) : Count(a, x) = Count(b, x)

Indices == 0 .. Len(input) - 1

LongInput == Len(input) > INSERTION_THRESHOLD + 1

\* C1: when sort has returned, every adjacent pair of the array is in order.
C1_SortedOnReturn == Done => Sorted(arr, 0, Len(arr) - 1)

C1_Witness ==
    /\ Done
    /\ LongInput
    /\ \A k \in 0 .. Len(input) - 2 : At(input, k) > At(input, k + 1)
    /\ arr # input

\* C2: in every state, between any two steps of the sort, the array holds
\* exactly the elements of the input, each as many times.
C2_Permutation == SameMultiset(arr, input)

C2_Witness ==
    /\ Done
    /\ LongInput
    /\ arr # input
    /\ ins_len > 1
    /\ \E k \in Indices : Count(input, At(input, k)) > 1

\* C3: every call a downwave call makes, to downwave or to upwave, is on a
\* strictly shorter range than its own, and the sort returns.
Shrinks ==
    \A k \in 1 .. Len(stack) - 1 :
        (stack[k + 1].fn = "downwave" /\ stack[k].fn \in {"downwave", "upwave"})
            => stack[k].end - stack[k].start < stack[k + 1].end - stack[k + 1].start

C3_Terminates == []Shrinks /\ <>Done

C3_Witness ==
    /\ Running("upwave", "loop")
    /\ Len(stack) >= 5
    /\ stack[2].fn = "downwave"
    /\ stack[3].fn = "downwave"
    /\ Top.end - Top.start < stack[2].end - stack[2].start
    /\ stack[2].end - stack[2].start < stack[3].end - stack[3].start

\* C4: the sort never panics: no index subtraction goes below zero, and every
\* index read or written, every slice taken, lies inside the array.
FrameInBounds(f) ==
    CASE f.fn = "partition" ->
             /\ f.l \in Indices /\ f.r \in Indices /\ f.p_idx \in Indices
             /\ f.i \in Indices /\ f.j \in Indices
             /\ f.reads \subseteq Indices /\ f.writes \subseteq Indices
      [] f.fn = "downwave" ->
             /\ f.start \in Indices /\ f.sorted_start \in Indices /\ f.end \in Indices
             /\ f.start <= f.end
             /\ f.pc # "entry" => (f.p \in Indices /\ f.p >= f.sorted_start)
             /\ f.pc \in {"partitioned", "swapped", "second", "ret"} => f.m \in Indices
      [] f.fn = "upwave" ->
             /\ f.start \in Indices /\ f.end \in Indices /\ f.start <= f.end
             /\ f.left_bound \in Indices /\ f.sorted_start \in Indices
      [] OTHER -> TRUE

C4_NoPanic ==
    /\ fault = "none"
    /\ \A k \in 1 .. Len(stack) : FrameInBounds(stack[k])

C4_Witness ==
    /\ stack # <<>>
    /\ Top.fn = "partition" /\ Top.pc = "right"
    /\ Top.l = 0 /\ Top.j = 1 /\ Top.i = 0
    /\ Top.writes # {}

\* C5 as stated: on return from partition(l, r, p_idx), l <= m <= r, every
\* element of [l, r] before m is <= the pivot value and every element of [l, r]
\* from m on is >= the pivot value.
C5_AsStated ==
    Running("partition", "ret") =>
        LET f == Top IN
        /\ f.l <= f.i /\ f.i <= f.r
        /\ \A k \in f.l .. f.i - 1 : At(arr, k) <= f.pivot_val
        /\ \A k \in f.i .. f.r : At(arr, k) >= f.pivot_val

\* C5 amended: the same for the positions of [l, r) only; the element at r,
\* the first of the sorted suffix, is neither examined nor moved and is <= the
\* pivot value.
C5_Partitioned ==
    Running("partition", "ret") =>
        LET f == Top IN
        /\ f.l = Head(Rest).start /\ f.r = Head(Rest).sorted_start
        /\ f.p_idx = Head(Rest).p
        /\ f.pivot_val = At(f.snap, f.p_idx)
        /\ f.l <= f.i /\ f.i <= f.r
        /\ \A k \in f.l .. f.i - 1 : At(arr, k) <= f.pivot_val
        /\ \A k \in f.i .. f.r - 1 : At(arr, k) >= f.pivot_val
        /\ At(arr, f.r) <= f.pivot_val
        /\ f.r \notin f.writes
        /\ f.r \in f.reads => f.r = f.p_idx

C5_Witness ==
    /\ Running("partition", "ret")
    /\ Top.l < Top.i /\ Top.i < Top.r
    /\ At(arr, Top.r) < Top.pivot_val
    /\ Top.writes # {}

\* C6 as stated: partition(l, r, p_idx) reads no position outside [l, r], the
\* read of the pivot value included, and changes no position outside [l, r].
C6_AsStated ==
    (fault = "none" /\ stack # <<>> /\ Top.fn = "partition") =>
        LET f == Top
            l == Head(Rest).start
            r == Head(Rest).sorted_start
        IN  /\ f.reads \subseteq l .. r
            /\ \A k \in Indices \ (l .. r) : At(arr, k) = At(f.snap, k)

\* C6 amended: the pivot value is read at p_idx, which lies in the sorted suffix
\* [r, end]; every other read and every write is inside [l, r], and no position
\* outside [l, r] changes.
C6_Frame ==
    (fault = "none" /\ stack # <<>> /\ Top.fn = "partition") =>
        LET f == Top
            l == Head(Rest).start
            r == Head(Rest).sorted_start
        IN  /\ f.reads \subseteq (l .. r) \cup {f.p_idx}
            /\ f.pc # "entry" => f.p_idx \in f.reads
            /\ r <= f.p_idx /\ f.p_idx <= Head(Rest).end
            /\ f.writes \subseteq l .. r
            /\ \A k \in Indices \ (l .. r) : At(arr, k) = At(f.snap, k)

C6_Witness ==
    /\ Running("partition", "ret")
    /\ Top.p_idx > Top.r
    /\ Top.writes # {}
    /\ Top.l > 0
    /\ Top.p_idx < Len(arr) - 1

\* C7: each downwave call starts with start <= sorted_start <= end and
\* [sorted_start, end] ascending; each time downwave returns into upwave's loop,
\* [left_bound, end] is ascending.
C7_SortedSuffix ==
    /\ Running("downwave", "entry") =>
           /\ Top.start <= Top.sorted_start /\ Top.sorted_start <= Top.end
           /\ Sorted(arr, Top.sorted_start, Top.end)
    /\ Running("upwave", "loop") => Sorted(arr, Top.left_bound, Top.end)

C7_Witness ==
    /\ Running("downwave", "entry")
    /\ Len(stack) >= 4
    /\ stack[2].fn = "downwave" /\ stack[2].pc = "ret"
    /\ Top.sorted_start < Top.end
    /\ Top.end - Top.start > INSERTION_THRESHOLD
    /\ ~Sorted(arr, Top.start, Top.sorted_start)

\* C8: right after block_swap(arr, m, sorted_start, p): m < sorted_start <= p,
\* [m, p] is rotated left by sorted_start - m, the pivot value is at split_point,
\* nothing outside [m, p] moved, [start, split_point) is <= the pivot value and
\* (split_point, end] is >= it.
C8_BlockSwap ==
    Running("downwave", "swapped") =>
        LET f == Top
            split_point == f.m + (f.p - f.sorted_start)
        IN  /\ f.m < f.sorted_start /\ f.sorted_start <= f.p
            /\ At(arr, split_point) = f.v
            /\ \A k \in 0 .. f.p - f.sorted_start :
                   At(arr, f.m + k) = At(f.pre, f.sorted_start + k)
            /\ Sorted(arr, f.m, split_point)
            /\ \A k \in 0 .. f.sorted_start - f.m - 1 :
                   At(arr, split_point + 1 + k) = At(f.pre, f.m + k)
            /\ \A k \in Indices \ (f.m .. f.p) : At(arr, k) = At(f.pre, k)
            /\ \A k \in f.start .. split_point - 1 : At(arr, k) <= f.v
            /\ \A k \in split_point + 1 .. f.end : At(arr, k) >= f.v

C8_Witness ==
    /\ Running("downwave", "swapped")
    /\ Top.start < Top.m
    /\ Top.sorted_start < Top.p
    /\ Top.m + 1 < Top.sorted_start
    /\ arr # Top.pre

\* C9: insertion_sort is only ever given a slice of at most 32 elements, and
\* partition is only reached for a window of more than 32 elements.
C9_AsStated ==
    /\ ins_len <= INSERTION_THRESHOLD
    /\ \A k \in 1 .. Len(stack) :
           (stack[k].fn = "downwave" /\ stack[k].pc # "entry")
               => stack[k].end - stack[k].start + 1 > INSERTION_THRESHOLD

\* C10: each of downwave's four underflow guards is true whenever it is tested,
\* because start < sorted_start <= p holds once partition has returned and
\* start < m holds where m > 0 and split_point > 0 are tested.
C10_GuardsHold ==
    /\ skipped = {}
    /\ Running("downwave", "partitioned") =>
           Top.start < Top.sorted_start /\ Top.sorted_start <= Top.p
    /\ (Running("downwave", "swapped") /\ Top.m # Top.start) =>
           /\ Top.start < Top.m
           /\ SplitPoint(Top.m, Top.p, Top.sorted_start) > 0

C10_Witness ==
    /\ skipped = {}
    /\ {"p > 0", "m > 0"} \subseteq guards
    /\ Running("upwave", "entry")
    /\ stack[2].fn = "downwave" /\ stack[2].pc = "second"
    /\ stack[2].start = 0

====
